---- MODULE Spec2Model ----
(***************************************************************************)
(* SOS complaint lifecycle of return0-server: the SOSComplaint document    *)
(* (schema, pre-save hook, instance methods), the user-facing handlers of  *)
(* sosComplaintController.js and the authority handlers of                 *)
(* authorityController.js, over the complaint and notification             *)
(* collections.                                                            *)
(*                                                                         *)
(* Free text (titles, descriptions, messages, notes) is abstracted to a    *)
(* few representative values that satisfy the schema's length limits.      *)
(* Communication messages are kept as tuples of their template parts.      *)
(***************************************************************************)
EXTENDS Integers, Sequences, FiniteSets, TLC

(* complaints, notifications and trips are the stored collections; req and
   resp are the request served last and its response; calls holds the
   handler calls that have read the store and not yet written back *)
VARIABLES complaints, notifications, trips, calls, req, resp

vars == <<complaints, notifications, trips, calls, req, resp>>

----------------------------------------------------------------------------
(* Bounds *)

MaxComms == 2

MaxNotifs == 2

(* Value domains *)

Null == "null"

Users == {"u1", "u2"}

ComplaintIds == {"c1"}

Categories ==
  {"missing_person", "fire_emergency", "theft_robbery", "accident",
   "medical_help", "general_help", "harassment", "fraud",
   "traffic_violation", "noise_complaint", "other"}

Urgencies == {"low", "medium", "high", "critical"}

StatusEnum ==
  {"submitted", "under_review", "assigned", "in_progress", "resolved",
   "closed", "rejected"}

Departments ==
  {"police", "fire_department", "medical_emergency", "traffic_police",
   "tourist_police", "cyber_crime", "general"}

Priorities == {"low", "normal", "high", "critical"}

SubmissionSources == {"mobile_app", "web_portal", "phone_call", "walk_in"}

MinRating == 1

MaxRating == 5

(* feedback.rating default: null *)
NoRating == 0

(* users collection: u1 has a phone, u2 has none; email is required *)
UserPhone(u) == IF u = "u1" THEN "phone_u1" ELSE Null

UserEmail(u) == IF u = "u1" THEN "email_u1" ELSE "email_u2"

(* mutant: the phone is ignored *)
EmergencyContact_EmailOnly(userId) == UserEmail(userId)

(* contactInfo: user.phone || user.email *)
EmergencyContact(userId) ==
  IF UserPhone(userId) # Null THEN UserPhone(userId) ELSE UserEmail(userId)

----------------------------------------------------------------------------
(* SOSComplaint schema: pre('save') hook *)

(* mutant: the isEmergencySOS signal is dropped *)
PreSavePriority_UrgencyOnly(urgency, isEmergencySOS) ==
  IF urgency = "critical" THEN "critical"
  ELSE IF urgency = "high" THEN "high"
  ELSE IF urgency = "medium" THEN "normal"
  ELSE "low"

PreSavePriority(urgency, isEmergencySOS) ==
  IF urgency = "critical" \/ isEmergencySOS THEN "critical"
  ELSE IF urgency = "high" THEN "high"
  ELSE IF urgency = "medium" THEN "normal"
  ELSE "low"

(* mutant: the 'fraud' case label is missing *)
PreSaveDepartment_NoFraud(category) ==
  CASE category = "fire_emergency" -> "fire_department"
    [] category = "medical_help" -> "medical_emergency"
    [] category \in {"accident", "traffic_violation"} -> "traffic_police"
    [] category \in {"theft_robbery", "harassment"} -> "police"
    [] category = "missing_person" -> "tourist_police"
    [] OTHER -> "general"

PreSaveDepartment(category) ==
  CASE category = "fire_emergency" -> "fire_department"
    [] category = "medical_help" -> "medical_emergency"
    [] category \in {"accident", "traffic_violation"} -> "traffic_police"
    [] category \in {"theft_robbery", "harassment", "fraud"} -> "police"
    [] category = "missing_person" -> "tourist_police"
    [] OTHER -> "general"

(* mutant: the hook derives nothing *)
preSave_NoRecompute(doc, modUrgency, modCategory) == doc

(* modUrgency / modCategory are isModified('urgency') / isModified('category') *)
preSave(doc, modUrgency, modCategory) ==
  LET d1 == IF modUrgency \/ modCategory
              THEN [doc EXCEPT !.priority =
                      PreSavePriority(doc.urgency, doc.isEmergencySOS)]
              ELSE doc
  IN IF modCategory
       THEN [d1 EXCEPT !.assignedDepartment = PreSaveDepartment(d1.category)]
       ELSE d1

(* schema validation run by save() before the pre('save') hook *)
validate(doc) ==
  /\ doc.userId \in Users
  /\ doc.category \in Categories
  /\ doc.urgency \in Urgencies
  /\ doc.contactInfo # Null
  /\ doc.status \in StatusEnum
  /\ doc.assignedDepartment \in Departments \cup {Null}
  /\ doc.priority \in Priorities
  /\ doc.submissionSource \in SubmissionSources
  /\ doc.feedback = NoRating \/ doc.feedback \in MinRating..MaxRating
  /\ \A i \in 1..Len(doc.communications) :
        doc.communications[i].from \in {"user", "officer", "system"}

(* SOSComplaint instance methods, up to (not including) this.save() *)

(* mutant: the entry replaces the log instead of being pushed *)
addCommunication_Overwrite(doc, from, message) ==
  [doc EXCEPT !.communications = <<[from |-> from, message |-> message]>>]

addCommunication(doc, from, message) ==
  [doc EXCEPT !.communications =
     Append(@, [from |-> from, message |-> message])]

(* mutant: the status change is not logged *)
updateStatus_NoLog(doc, newStatus, notes) == [doc EXCEPT !.status = newStatus]

updateStatus(doc, newStatus, notes) ==
  [doc EXCEPT !.status = newStatus,
              !.communications =
                 Append(@, [from |-> "system",
                            message |-> <<"Status changed from", doc.status,
                                          "to", newStatus, notes>>])]

assignOfficer(doc, officerId) ==
  [doc EXCEPT !.assignedTo = officerId,
              !.status = "assigned",
              !.communications =
                 Append(@, [from |-> "system",
                            message |-> <<"Complaint assigned to officer">>])]

(* mutant: the resolution notes are not stored *)
resolve_DropNotes(doc, resolutionNotes) ==
  [doc EXCEPT !.status = "resolved",
              !.resolvedAt = TRUE,
              !.communications =
                 Append(@, [from |-> "system",
                            message |-> <<"Complaint resolved",
                                          resolutionNotes>>])]

resolve(doc, resolutionNotes) ==
  [doc EXCEPT !.status = "resolved",
              !.resolutionNotes = resolutionNotes,
              !.resolvedAt = TRUE,
              !.communications =
                 Append(@, [from |-> "system",
                            message |-> <<"Complaint resolved",
                                          resolutionNotes>>])]

submitFeedbackMethod(doc, rating) == [doc EXCEPT !.feedback = rating]

softDelete(doc) == [doc EXCEPT !.isDeleted = TRUE, !.deletedAt = TRUE]

(* mutant: the write-once check is missing *)
AlreadyRated_Never(doc) == FALSE

(* if (complaint.feedback.rating) *)
AlreadyRated(doc) == doc.feedback # NoRating

(* mutant: the required-notes check is missing *)
NotesMissing_Never(resolutionNotes) == FALSE

(* if (!resolutionNotes) *)
NotesMissing(resolutionNotes) == resolutionNotes = Null

(* mutant: escalation raises the priority instead of setting the status *)
escalate_Priority(doc) == [doc EXCEPT !.priority = "critical"]

(* escalateToFIR's in-memory update before its first save(); the escalation
   metadata keys are not schema paths and are not modelled *)
escalate(doc) == [doc EXCEPT !.status = "escalated"]

----------------------------------------------------------------------------
(* Store access *)

Exists(id) == id \in DOMAIN complaints

Put(id, doc) ==
  [i \in DOMAIN complaints \cup {id} |->
     IF i = id THEN doc ELSE complaints[i]]

(* SOSComplaint.findById(complaintId) *)
findById(id) == Exists(id)

(* findOne({_id, userId, isDeleted: false}) *)
(* mutant: the owner filter is missing *)
OwnedQuery_AnyOwner(doc, userId) == ~doc.isDeleted

OwnedQuery(doc, userId) == doc.userId = userId /\ ~doc.isDeleted

(* mutant: the status filter is missing *)
CancelQuery_AnyStatus(doc, userId) == doc.userId = userId /\ ~doc.isDeleted

(* mutant: the owner filter is missing *)
CancelQuery_AnyOwner(doc, userId) == doc.status = "submitted" /\ ~doc.isDeleted

(* findOne({_id, userId, status: 'submitted', isDeleted: false}) *)
CancelQuery(doc, userId) ==
  doc.userId = userId /\ doc.status = "submitted" /\ ~doc.isDeleted

(* mutant: the status filter is missing *)
FeedbackQuery_AnyStatus(doc, userId) == doc.userId = userId /\ ~doc.isDeleted

(* findOne({_id, userId, status: {$in: ['resolved','closed']}, isDeleted: false}) *)
FeedbackQuery(doc, userId) ==
  doc.userId = userId /\ doc.status \in {"resolved", "closed"} /\ ~doc.isDeleted

Request(op, id, caller, text, rating) ==
  [op |-> op, id |-> id, caller |-> caller, text |-> text, rating |-> rating]

Response(op, code, message, id, eta) ==
  [op |-> op, code |-> code, message |-> message, id |-> id, eta |-> eta]

Notification(userId, title, type, priority, actionRequired, actionUrl, relatedType) ==
  [userId |-> userId, title |-> title, type |-> type, priority |-> priority,
   actionRequired |-> actionRequired, actionUrl |-> actionUrl,
   relatedType |-> relatedType]

----------------------------------------------------------------------------
(* Notification.create: the store may reject the write; it holds at most
   MaxNotifs records in this model *)
NotifyOk(ok) == ok /\ Len(notifications) < MaxNotifs

----------------------------------------------------------------------------
Init ==
  /\ complaints = [i \in {} |-> Null]
  /\ notifications = << >>
  /\ trips = << >>
  /\ calls = [p \in {} |-> Null]
  /\ req = Request("none", Null, Null, Null, NoRating)
  /\ resp = Response("none", 0, Null, Null, Null)

----------------------------------------------------------------------------
(* POST /sos/submit *)

(* location.coordinates, an array of numbers [longitude, latitude]: the
   path is null or absent, or holds an array, which may be empty *)
NullCoordinates == [isNull |-> TRUE, items |-> << >>]

Coordinates(items) == [isNull |-> FALSE, items |-> items]

(* request bodies: every field is either absent (Null) or carries a value;
   the body is spread over the document, so it may name any schema path *)
Body(owner, cat, urg, contact, sos, st, prio, dept, del, coords) ==
  [userId |-> owner, category |-> cat, urgency |-> urg,
   contactInfo |-> contact, isEmergencySOS |-> sos, status |-> st,
   priority |-> prio, assignedDepartment |-> dept, isDeleted |-> del,
   coordinates |-> coords]

Default(v, d) == IF v = Null THEN d ELSE v

(* new SOSComplaint({userId, ...req.body, metadata}) with schema defaults *)
NewComplaint(userId, body) ==
  [userId |-> Default(body.userId, userId),
   category |-> body.category,
   urgency |-> Default(body.urgency, "medium"),
   contactInfo |-> body.contactInfo,
   isEmergencySOS |-> body.isEmergencySOS,
   sosActivatedAt |-> body.isEmergencySOS,
   status |-> Default(body.status, "submitted"),
   priority |-> Default(body.priority, "normal"),
   assignedDepartment |-> body.assignedDepartment,
   submissionSource |-> "mobile_app",
   resolutionNotes |-> Null,
   resolvedAt |-> FALSE,
   communications |-> << >>,
   feedback |-> NoRating,
   assignedTo |-> Null,
   isDeleted |-> body.isDeleted,
   deletedAt |-> FALSE,
   coordinates |-> body.coordinates]

(* createComplaintNotification(userId, complaint, 'submitted') *)
SubmittedNotification(userId, doc) ==
  Notification(userId, "Help Request Submitted",
               IF doc.urgency = "critical" THEN "emergency" ELSE "info",
               IF doc.urgency = "critical" THEN "critical" ELSE "medium",
               FALSE, Null, "sos_complaint")

submitComplaint(id, userId, body, ok1, ok2) ==
  /\ ~Exists(id)
  /\ req' = Request("submit", Null, userId, Null, NoRating)
  /\ UNCHANGED <<trips, calls>>
  /\ LET doc == NewComplaint(userId, body)
         saved == preSave(doc, body.urgency # Null, TRUE)
         n1 == IF NotifyOk(ok1)
                 THEN Append(notifications, SubmittedNotification(userId, saved))
                 ELSE notifications
     IN IF ~validate(doc)
          THEN /\ resp' = Response("submit", 500,
                                   "Server error while submitting complaint",
                                   Null, Null)
               /\ UNCHANGED <<complaints, notifications>>
          ELSE /\ complaints' = Put(id, saved)
               /\ IF ~body.isEmergencySOS
                    THEN /\ notifications' = n1
                         /\ resp' = Response("submit", 201,
                                "Complaint submitted successfully", id, Null)
                    ELSE IF ok2 /\ Len(n1) < MaxNotifs
                      THEN /\ notifications' =
                                Append(n1, Notification(userId,
                                   "Emergency SOS Activated", "emergency",
                                   "critical", FALSE, Null,
                                   "sos_complaint"))
                           /\ resp' = Response("submit", 201,
                                "Complaint submitted successfully", id, Null)
                      ELSE /\ notifications' = n1
                           /\ resp' = Response("submit", 500,
                                "Server error while submitting complaint",
                                Null, Null)

(* POST /sos/emergency; source is req.body.metadata.submissionSource and
   coordinates is req.body.location?.coordinates || null *)
submitEmergencyComplaint(id, userId, source, coordinates, ok) ==
  /\ ~Exists(id)
  /\ req' = Request("emergency", Null, userId, Null, NoRating)
  /\ UNCHANGED <<trips, calls>>
  /\ LET doc ==
           [userId |-> userId,
            category |-> "general_help",
            urgency |-> "critical",
            contactInfo |-> EmergencyContact(userId),
            isEmergencySOS |-> TRUE,
            sosActivatedAt |-> TRUE,
            status |-> "submitted",
            priority |-> "normal",
            assignedDepartment |-> Null,
            submissionSource |-> Default(source, "emergency_sos"),
            resolutionNotes |-> Null,
            resolvedAt |-> FALSE,
            communications |-> << >>,
            feedback |-> NoRating,
            assignedTo |-> Null,
            isDeleted |-> FALSE,
            deletedAt |-> FALSE,
            coordinates |-> coordinates]
     IN IF ~validate(doc)
          THEN /\ resp' = Response("emergency", 500,
                             "Server error while activating emergency SOS",
                             Null, Null)
               /\ UNCHANGED <<complaints, notifications>>
          ELSE /\ complaints' = Put(id, preSave(doc, TRUE, TRUE))
               /\ IF NotifyOk(ok)
                    THEN /\ notifications' =
                                Append(notifications, Notification(userId,
                                   "EMERGENCY SOS ACTIVATED", "emergency",
                                   "critical", FALSE, Null,
                                   "emergency_sos"))
                         /\ resp' = Response("emergency", 201,
                                "Emergency SOS activated successfully", id,
                                "5-8 minutes")
                    ELSE /\ UNCHANGED notifications
                         /\ resp' = Response("emergency", 500,
                                "Server error while activating emergency SOS",
                                Null, Null)

----------------------------------------------------------------------------
(* POST /sos/:complaintId/communication *)
userAddCommunication(id, userId, message) ==
  /\ req' = Request("communication", id, userId, message, NoRating)
  /\ UNCHANGED <<trips, calls>>
  /\ IF ~(Exists(id) /\ OwnedQuery(complaints[id], userId))
       THEN /\ resp' = Response("communication", 404, "Complaint not found",
                                Null, Null)
            /\ UNCHANGED <<complaints, notifications>>
       ELSE /\ Len(complaints[id].communications) < MaxComms
            /\ UNCHANGED notifications
            /\ IF message = Null
                 THEN /\ resp' = Response("communication", 500,
                              "Server error while adding communication",
                              Null, Null)
                      /\ UNCHANGED complaints
                 ELSE /\ complaints' = Put(id, preSave(
                              addCommunication(complaints[id], "user", message),
                              FALSE, FALSE))
                      /\ resp' = Response("communication", 200,
                              "Communication added successfully", id, Null)

(* POST /sos/:complaintId/feedback *)
submitFeedback(id, userId, rating) ==
  /\ req' = Request("feedback", id, userId, Null, rating)
  /\ UNCHANGED <<trips, calls>>
  /\ UNCHANGED notifications
  /\ IF ~(Exists(id) /\ FeedbackQuery(complaints[id], userId))
       THEN /\ resp' = Response("feedback", 404,
                   "Complaint not found or not eligible for feedback",
                   Null, Null)
            /\ UNCHANGED complaints
       ELSE IF AlreadyRated(complaints[id])
         THEN /\ resp' = Response("feedback", 400,
                   "Feedback has already been submitted for this complaint",
                   Null, Null)
              /\ UNCHANGED complaints
         ELSE LET doc == submitFeedbackMethod(complaints[id], rating)
              IN IF ~validate(doc)
                   THEN /\ resp' = Response("feedback", 500,
                               "Server error while submitting feedback",
                               Null, Null)
                        /\ UNCHANGED complaints
                   ELSE /\ complaints' = Put(id, preSave(doc, FALSE, FALSE))
                        /\ resp' = Response("feedback", 200,
                               "Feedback submitted successfully", id, Null)

(* PATCH /sos/:complaintId/cancel *)
cancelComplaint(id, userId, reason) ==
  /\ req' = Request("cancel", id, userId, reason, NoRating)
  /\ UNCHANGED <<trips, calls>>
  /\ UNCHANGED notifications
  /\ IF ~(Exists(id) /\ CancelQuery(complaints[id], userId))
       THEN /\ resp' = Response("cancel", 404,
                   "Complaint not found or cannot be cancelled", Null, Null)
            /\ UNCHANGED complaints
       ELSE /\ Len(complaints[id].communications) < MaxComms
            /\ complaints' = Put(id, preSave(
                   updateStatus(complaints[id], "closed",
                      <<"Cancelled by user",
                        Default(reason, "No reason provided")>>),
                   FALSE, FALSE))
            /\ resp' = Response("cancel", 200,
                   "Complaint cancelled successfully", id, Null)

----------------------------------------------------------------------------
(* PATCH /authority/complaints/:complaintId/acknowledge *)
acknowledgeComplaint(id, officerName, notes, ok) ==
  /\ req' = Request("acknowledge", id, Null, notes, NoRating)
  /\ UNCHANGED <<trips, calls>>
  /\ IF ~findById(id)
       THEN /\ resp' = Response("acknowledge", 404, "Complaint not found",
                                Null, Null)
            /\ UNCHANGED <<complaints, notifications>>
       ELSE /\ Len(complaints[id].communications) < MaxComms
            /\ complaints' = Put(id, preSave(
                   updateStatus(complaints[id], "under_review",
                      <<"Acknowledged by", Default(officerName, "Authority"),
                        notes>>),
                   FALSE, FALSE))
            /\ IF NotifyOk(ok)
                 THEN /\ notifications' =
                             Append(notifications,
                                Notification(complaints[id].userId,
                                   "Complaint Acknowledged", "info", "medium",
                                   FALSE, Null, "sos_complaint"))
                      /\ resp' = Response("acknowledge", 200,
                             "Complaint acknowledged successfully", id, Null)
                 ELSE /\ UNCHANGED notifications
                      /\ resp' = Response("acknowledge", 500,
                             "Server error while acknowledging complaint",
                             Null, Null)

(* PATCH /authority/complaints/:complaintId/resolve *)
resolveComplaint(id, resolutionNotes, ok) ==
  /\ req' = Request("resolve", id, Null, resolutionNotes, NoRating)
  /\ UNCHANGED <<trips, calls>>
  /\ IF NotesMissing(resolutionNotes)
       THEN /\ resp' = Response("resolve", 400,
                   "Resolution notes are required", Null, Null)
            /\ UNCHANGED <<complaints, notifications>>
       ELSE IF ~findById(id)
         THEN /\ resp' = Response("resolve", 404, "Complaint not found",
                                  Null, Null)
              /\ UNCHANGED <<complaints, notifications>>
         ELSE /\ Len(complaints[id].communications) < MaxComms
              /\ complaints' = Put(id, preSave(
                     resolve(complaints[id], resolutionNotes), FALSE, FALSE))
              /\ IF NotifyOk(ok)
                   THEN /\ notifications' =
                               Append(notifications,
                                  Notification(complaints[id].userId,
                                     "Complaint Resolved", "success", "medium",
                                     TRUE, "/sos/" \o id \o "/feedback",
                                     "sos_complaint"))
                        /\ resp' = Response("resolve", 200,
                               "Complaint resolved successfully", id, Null)
                   ELSE /\ UNCHANGED notifications
                        /\ resp' = Response("resolve", 500,
                               "Server error while resolving complaint",
                               Null, Null)

(* PATCH /authority/complaints/:complaintId/escalate *)
escalateToFIR(id, officerName, escalationNotes, firNumber, ok) ==
  /\ req' = Request("escalate", id, Null, escalationNotes, NoRating)
  /\ UNCHANGED <<trips, calls>>
  /\ IF ~findById(id)
       THEN /\ resp' = Response("escalate", 404, "Complaint not found",
                                Null, Null)
            /\ UNCHANGED <<complaints, notifications>>
       ELSE LET doc == escalate(complaints[id])
                logged == addCommunication(doc, "system",
                             <<"Complaint escalated to FIR", firNumber,
                               Default(officerName, "Authority"),
                               escalationNotes>>)
            IN IF ~validate(doc)
                 THEN /\ resp' = Response("escalate", 500,
                             "Server error while escalating complaint to FIR",
                             Null, Null)
                      /\ UNCHANGED <<complaints, notifications>>
                 ELSE /\ Len(doc.communications) < MaxComms
                      /\ complaints' = Put(id, preSave(logged, FALSE, FALSE))
                      /\ IF NotifyOk(ok)
                           THEN /\ notifications' =
                                       Append(notifications,
                                          Notification(doc.userId,
                                             "Complaint Escalated to FIR",
                                             "info", "high", FALSE, Null,
                                             "fir_case"))
                                /\ resp' = Response("escalate", 200,
                                       "Complaint escalated to FIR successfully",
                                       id, Null)
                           ELSE /\ UNCHANGED notifications
                                /\ resp' = Response("escalate", 500,
                                       "Server error while escalating complaint to FIR",
                                       Null, Null)

(* POST /authority/complaints/:complaintId/communication *)
addComplaintCommunication(id, message, ok) ==
  /\ req' = Request("authorityCommunication", id, Null, message, NoRating)
  /\ UNCHANGED <<trips, calls>>
  /\ IF message = Null
       THEN /\ resp' = Response("authorityCommunication", 400,
                   "Message is required", Null, Null)
            /\ UNCHANGED <<complaints, notifications>>
       ELSE IF ~findById(id)
         THEN /\ resp' = Response("authorityCommunication", 404,
                     "Complaint not found", Null, Null)
              /\ UNCHANGED <<complaints, notifications>>
         ELSE /\ Len(complaints[id].communications) < MaxComms
              /\ complaints' = Put(id, preSave(
                     addCommunication(complaints[id], "officer", message),
                     FALSE, FALSE))
              /\ IF NotifyOk(ok)
                   THEN /\ notifications' =
                               Append(notifications,
                                  Notification(complaints[id].userId,
                                     "Message from Authority", "info",
                                     "medium", FALSE, Null, "sos_complaint"))
                        /\ resp' = Response("authorityCommunication", 200,
                               "Communication added successfully", id, Null)
                   ELSE /\ UNCHANGED notifications
                        /\ resp' = Response("authorityCommunication", 500,
                               "Server error while adding communication",
                               Null, Null)

----------------------------------------------------------------------------
(* well-formed bodies over the whole input domain *)
IntakeSubmit ==
  \E id \in ComplaintIds \ DOMAIN complaints :
  \E u \in Users, o \in {Null} \cup Users,
     c \in Categories, g \in {Null} \cup Urgencies, e \in BOOLEAN,
     s \in {Null} \cup StatusEnum, p \in {Null, "low"},
     d \in {Null, "cyber_crime"}, del \in BOOLEAN, ok1 \in BOOLEAN,
     ok2 \in BOOLEAN :
       submitComplaint(id, u,
          Body(o, c, g, "contact", e, s, p, d, del, NullCoordinates),
          ok1, ok2)

(* bodies that fail schema validation *)
IntakeSubmitInvalid ==
  \E id \in ComplaintIds \ DOMAIN complaints :
  \E u \in Users, c \in {Null, "fire_emergency"},
     g \in {Null, "urgent"}, ci \in {Null, "contact"},
     s \in {Null, "escalated"}, p \in {Null, "urgent"} :
       /\ Null \in {c, ci} \/ g = "urgent" \/ s = "escalated" \/ p = "urgent"
       /\ submitComplaint(id, u,
             Body(Null, c, g, ci, FALSE, s, p, Null, FALSE, NullCoordinates),
             TRUE, TRUE)

IntakeEmergency ==
  \E id \in ComplaintIds \ DOMAIN complaints :
  \E u \in Users, src \in {Null, "web_portal", "phone_call"}, ok \in BOOLEAN :
       submitEmergencyComplaint(id, u, src, NullCoordinates, ok)

NextIntake == IntakeSubmit \/ IntakeSubmitInvalid \/ IntakeEmergency

SpecIntake == Init /\ [][NextIntake]_vars

----------------------------------------------------------------------------
(* Route mounting (server.js). The sos router is mounted behind the protect
   middleware, the authority router is mounted without it. authMiddleware.js
   is not among the sources; protect is modelled from the interface
   description: a valid bearer token attaches its principal as req.user, a
   missing or invalid token is answered 401. In a request record, caller is
   req.user: the user handlers run with the principal protect attached, the
   authority handlers run with none. *)

TokenOf(u) == "token_" \o u

protect(token) ==
  IF \E u \in Users : token = TokenOf(u)
    THEN CHOOSE u \in Users : token = TokenOf(u)
    ELSE Null

ProtectedOps == {"submit", "emergency", "communication", "feedback", "cancel"}

(* a request to a protected route that protect turns away *)
unauthorized(op, id, token) ==
  /\ op \in ProtectedOps
  /\ protect(token) = Null
  /\ req' = Request("unauthorized", id, protect(token), op, NoRating)
  /\ UNCHANGED <<trips, calls>>
  /\ resp' = Response("unauthorized", 401, "Unauthorized", Null, Null)
  /\ UNCHANGED <<complaints, notifications>>

----------------------------------------------------------------------------
(* The complaint lifecycle: every handler, with Submit drawn from a reduced
   input domain *)

LifecycleSubmit ==
  \E id \in ComplaintIds \ DOMAIN complaints :
  \E u \in Users, o \in {Null} \cup Users,
     s \in {Null} \cup StatusEnum \cup {"escalated"},
     p \in {Null, "low"}, d \in {Null, "cyber_crime"}, del \in BOOLEAN,
     ok1 \in BOOLEAN :
       submitComplaint(id, u,
          Body(o, "fire_emergency", "high", "contact", FALSE, s, p, d, del,
               NullCoordinates),
          ok1, TRUE)

LifecycleEmergency ==
  \E id \in ComplaintIds \ DOMAIN complaints :
  \E u \in Users, src \in {Null, "web_portal"}, ok \in BOOLEAN :
       submitEmergencyComplaint(id, u, src, NullCoordinates, ok)

RatingInputs == {NoRating, MaxRating, MaxRating + 1}

Next ==
  \/ LifecycleSubmit
  \/ LifecycleEmergency
  \/ \E id \in ComplaintIds, u \in Users, m \in {Null, "message"} :
        userAddCommunication(id, u, m)
  \/ \E id \in ComplaintIds, u \in Users, r \in RatingInputs :
        submitFeedback(id, u, r)
  \/ \E id \in ComplaintIds, u \in Users, r \in {Null, "reason"} :
        cancelComplaint(id, u, r)
  \/ \E id \in ComplaintIds, ok \in BOOLEAN :
        acknowledgeComplaint(id, "officer", Null, ok)
  \/ \E id \in ComplaintIds, n \in {Null, "notes"}, ok \in BOOLEAN :
        resolveComplaint(id, n, ok)
  \/ \E id \in ComplaintIds, o \in {Null, "officer"}, n \in {Null, "notes"},
        f \in {Null, "FIR1"}, ok \in BOOLEAN :
        escalateToFIR(id, o, n, f, ok)
  \/ \E id \in ComplaintIds, m \in {Null, "message"}, ok \in BOOLEAN :
        addComplaintCommunication(id, m, ok)
  \/ \E op \in ProtectedOps, id \in ComplaintIds, t \in {Null, "invalid"} :
        unauthorized(op, id, t)

Spec == Init /\ [][Next]_vars

----------------------------------------------------------------------------
(* The SOSComplaint instance methods called on a stored document, together
   with the handlers that change a complaint's status. assignOfficer and
   softDelete have no caller among the handlers; here every method of the
   model is exercised as its callers may use it. *)

(* this.save() at the end of an instance method *)
save(method, id, doc) ==
  /\ req' = Request(method, id, Null, Null, NoRating)
  /\ UNCHANGED <<trips, calls>>
  /\ UNCHANGED notifications
  /\ IF validate(doc)
       THEN /\ complaints' = Put(id, preSave(doc, FALSE, FALSE))
            /\ resp' = Response(method, 200, "saved", id, Null)
       ELSE /\ UNCHANGED complaints
            /\ resp' = Response(method, 500, "ValidationError", Null, Null)

MethodsCreate ==
  \E id \in ComplaintIds \ DOMAIN complaints :
  \E u \in Users : submitEmergencyComplaint(id, u, "web_portal", NullCoordinates, TRUE)

MethodsAddCommunication ==
  \E id \in DOMAIN complaints, from \in {"officer", "admin"} :
     /\ Len(complaints[id].communications) < MaxComms
     /\ save("addCommunication()", id,
             addCommunication(complaints[id], from, "message"))

MethodsUpdateStatus ==
  \E id \in DOMAIN complaints, newStatus \in {"in_progress", "rejected", "escalated"} :
     /\ Len(complaints[id].communications) < MaxComms
     /\ save("updateStatus()", id,
             updateStatus(complaints[id], newStatus, Null))

MethodsAssignOfficer ==
  \E id \in DOMAIN complaints :
     /\ Len(complaints[id].communications) < MaxComms
     /\ save("assignOfficer()", id, assignOfficer(complaints[id], "officer"))

MethodsResolve ==
  \E id \in DOMAIN complaints :
     /\ Len(complaints[id].communications) < MaxComms
     /\ save("resolve()", id, resolve(complaints[id], "notes"))

MethodsSubmitFeedback ==
  \E id \in DOMAIN complaints, rating \in {MaxRating, MaxRating + 1} :
     save("submitFeedback()", id, submitFeedbackMethod(complaints[id], rating))

MethodsSoftDelete ==
  \E id \in DOMAIN complaints :
     save("softDelete()", id, softDelete(complaints[id]))

NextMethods ==
  \/ MethodsCreate
  \/ MethodsAddCommunication
  \/ MethodsUpdateStatus
  \/ MethodsAssignOfficer
  \/ MethodsResolve
  \/ MethodsSubmitFeedback
  \/ MethodsSoftDelete
  \/ \E id \in ComplaintIds : escalateToFIR(id, "officer", Null, "FIR1", TRUE)
  \/ \E id \in ComplaintIds, u \in Users : cancelComplaint(id, u, Null)
  \/ \E id \in ComplaintIds : acknowledgeComplaint(id, "officer", Null, TRUE)

SpecMethods == Init /\ [][NextMethods]_vars

----------------------------------------------------------------------------
(* Properties of the user and authority handlers (specification Spec).
   In an action formula, req' names the request the step serves, the
   unprimed store is the state the handler found and the primed store the
   state it left. *)

Target == complaints[req'.id]

TargetAfter == complaints'[req'.id]

Serves(op) == req'.op = op /\ req'.id \in DOMAIN complaints

(* C1: Cancel on a (not soft-deleted) complaint succeeds if and only if its
   status is submitted and the caller is its owner; when it succeeds the
   status becomes closed, and in every other (status, caller) combination it
   does not succeed. *)
C1_CancelIffSubmittedAndOwner ==
  [][(Serves("cancel") /\ ~Target.isDeleted) =>
       /\ (resp'.code = 200) <=>
            (Target.status = "submitted" /\ Target.userId = req'.caller)
       /\ (resp'.code = 200) => TargetAfter.status = "closed"]_vars

C1_Witness ==
  /\ req.op = "cancel" /\ resp.op = "cancel" /\ resp.code = 200
  /\ req.id \in DOMAIN complaints
  /\ complaints[req.id].status = "closed"
  /\ complaints[req.id].userId = req.caller

(* C2 as claimed: every Cancel that does not succeed (status other than
   submitted, or caller not the owner) is reported with Conflict (409) or
   Forbidden (403) and leaves the complaint's status and communications log
   unchanged. *)
C2_Original_CancelFailsConflictOrForbidden ==
  [][(Serves("cancel") /\ ~(Target.status = "submitted"
                            /\ Target.userId = req'.caller)) =>
       /\ resp'.code \in {409, 403}
       /\ TargetAfter.status = Target.status
       /\ TargetAfter.communications = Target.communications]_vars

(* C2 as amended: every Cancel that does not succeed (status other than
   submitted, or caller not the owner) is reported with NotFound (404) and
   the message 'Complaint not found or cannot be cancelled', and leaves the
   complaint's status and communications log unchanged. *)
C2_CancelFailsNotFound ==
  [][(Serves("cancel") /\ ~(Target.status = "submitted"
                            /\ Target.userId = req'.caller)) =>
       /\ resp'.code = 404
       /\ resp'.message = "Complaint not found or cannot be cancelled"
       /\ TargetAfter.status = Target.status
       /\ TargetAfter.communications = Target.communications]_vars

C2_Witness ==
  /\ req.op = "cancel" /\ resp.op = "cancel" /\ resp.code = 404
  /\ req.id \in DOMAIN complaints
  /\ ~complaints[req.id].isDeleted
  /\ complaints[req.id].status = "submitted"
  /\ complaints[req.id].userId # req.caller

(* C3 as claimed: once feedback with a rating is stored, every later
   SubmitFeedback with any rating fails with Conflict (409) and leaves the
   stored feedback unchanged. *)
C3_Original_SecondFeedbackConflict ==
  [][(Serves("feedback") /\ Target.feedback # NoRating) =>
       /\ resp'.code = 409
       /\ TargetAfter.feedback = Target.feedback]_vars

(* C3 as amended: once feedback with a rating is stored, every later
   SubmitFeedback with any rating fails and leaves the stored feedback
   unchanged; the failure is reported as 400 'Feedback has already been
   submitted' when the complaint is still the caller's resolved or closed
   complaint and as 404 otherwise. *)
C3_SecondFeedbackRejected ==
  [][(Serves("feedback") /\ Target.feedback # NoRating) =>
       /\ resp'.code = IF FeedbackQuery(Target, req'.caller) THEN 400 ELSE 404
       /\ TargetAfter.feedback = Target.feedback]_vars

C3_Witness ==
  /\ req.op = "feedback" /\ resp.op = "feedback" /\ resp.code = 400
  /\ req.rating \in MinRating..MaxRating
  /\ req.id \in DOMAIN complaints
  /\ complaints[req.id].feedback \in MinRating..MaxRating

(* C4: SubmitFeedback stores feedback only when, at the moment of the
   request, the complaint's status is resolved or closed and the caller is
   the complaint's owner; in every other case it fails and the complaint's
   feedback stays as it was. *)
C4_FeedbackOnlyWhenEligibleOwner ==
  [][Serves("feedback") =>
       \/ /\ Target.status \in {"resolved", "closed"}
          /\ Target.userId = req'.caller
       \/ /\ resp'.code # 200
          /\ TargetAfter.feedback = Target.feedback]_vars

C4_Witness ==
  /\ req.op = "feedback" /\ resp.op = "feedback" /\ resp.code = 200
  /\ req.id \in DOMAIN complaints
  /\ complaints[req.id].feedback = req.rating
  /\ req.rating \in MinRating..MaxRating
  /\ complaints[req.id].status \in {"resolved", "closed"}
  /\ complaints[req.id].userId = req.caller

(* C5: Resolve called without resolutionNotes fails with the
   missing-resolution-notes error (400) and changes nothing: the status and
   resolution are unchanged, no communication entry is appended and no
   notification is created. *)
C5_ResolveWithoutNotesChangesNothing ==
  [][(req'.op = "resolve" /\ req'.text = Null) =>
       /\ resp'.code = 400
       /\ resp'.message = "Resolution notes are required"
       /\ complaints' = complaints
       /\ notifications' = notifications]_vars

C5_Witness ==
  /\ req.op = "resolve" /\ req.text = Null
  /\ resp.op = "resolve" /\ resp.code = 400
  /\ req.id \in DOMAIN complaints
  /\ complaints[req.id].status \notin {"resolved"}
  /\ Len(complaints[req.id].communications) < MaxComms
  /\ Len(notifications) < MaxNotifs

(* C6: Escalate leaves the complaint's priority and assignedDepartment
   exactly as they were before the call, for every complaint and every
   combination of officerName, escalationNotes and firNumber. *)
C6_EscalateKeepsPriorityAndDepartment ==
  [][Serves("escalate") =>
       /\ TargetAfter.priority = Target.priority
       /\ TargetAfter.assignedDepartment = Target.assignedDepartment]_vars

C6_Witness ==
  /\ req.op = "escalate" /\ resp.op = "escalate"
  /\ req.text # Null
  /\ req.id \in DOMAIN complaints
  /\ complaints[req.id].priority = "high"
  /\ complaints[req.id].assignedDepartment = "fire_department"

----------------------------------------------------------------------------
(* Properties of intake and of the policy derivation (specification
   SpecIntake). The tables below are the policy as the specification
   document states it, written out row by row. *)

PolicyPriority(urgency, isEmergencySOS) ==
  CASE isEmergencySOS -> "critical"
    [] ~isEmergencySOS /\ urgency = "critical" -> "critical"
    [] ~isEmergencySOS /\ urgency = "high" -> "high"
    [] ~isEmergencySOS /\ urgency = "medium" -> "normal"
    [] ~isEmergencySOS /\ urgency = "low" -> "low"

PolicyDepartment(category) ==
  CASE category = "fire_emergency" -> "fire_department"
    [] category = "medical_help" -> "medical_emergency"
    [] category = "accident" -> "traffic_police"
    [] category = "traffic_violation" -> "traffic_police"
    [] category = "theft_robbery" -> "police"
    [] category = "harassment" -> "police"
    [] category = "fraud" -> "police"
    [] category = "missing_person" -> "tourist_police"
    [] category = "general_help" -> "general"
    [] category = "noise_complaint" -> "general"
    [] category = "other" -> "general"

Created == DOMAIN complaints' \ DOMAIN complaints

(* C7: the priority derivation is total over every (urgency,
   isEmergencySOS) combination and follows the first-match table: critical
   urgency or isEmergencySOS = true gives critical, high gives high, medium
   gives normal, low gives low; isEmergencySOS = true gives critical whatever
   the urgency. Checked on the priority the pre-save hook leaves in every
   stored complaint. *)
C7_PriorityFollowsTable ==
  \A id \in DOMAIN complaints :
    /\ complaints[id].urgency \in Urgencies
    /\ complaints[id].priority \in Priorities
    /\ complaints[id].priority =
         PolicyPriority(complaints[id].urgency, complaints[id].isEmergencySOS)
    /\ complaints[id].isEmergencySOS => complaints[id].priority = "critical"

C7_Witness ==
  \E id \in DOMAIN complaints :
    /\ complaints[id].isEmergencySOS
    /\ complaints[id].urgency = "low"
    /\ complaints[id].priority = "critical"

(* C8: the department derivation is total over all 11 category values
   (never undefined) and matches the table: fire_emergency to
   fire_department, medical_help to medical_emergency, accident and
   traffic_violation to traffic_police, theft_robbery, harassment and fraud
   to police, missing_person to tourist_police, every other category to
   general. Checked on the department the pre-save hook leaves in every
   stored complaint. *)
C8_DepartmentFollowsTable ==
  \A id \in DOMAIN complaints :
    /\ complaints[id].category \in Categories
    /\ complaints[id].assignedDepartment \in Departments
    /\ complaints[id].assignedDepartment =
         PolicyDepartment(complaints[id].category)

C8_Witness ==
  \E id \in DOMAIN complaints :
    /\ complaints[id].category = "fraud"
    /\ complaints[id].assignedDepartment = "police"

(* C9: every complaint created by Submit is stored with status submitted
   and with priority and assignedDepartment derived by the policy from its
   urgency, category and isEmergencySOS, whatever other fields the request
   payload carries. *)
C9_SubmitStoresSubmittedWithPolicy ==
  [][req'.op = "submit" =>
       \A id \in Created :
         /\ complaints'[id].status = "submitted"
         /\ complaints'[id].priority =
              PolicyPriority(complaints'[id].urgency,
                             complaints'[id].isEmergencySOS)
         /\ complaints'[id].assignedDepartment =
              PolicyDepartment(complaints'[id].category)]_vars

(* C10: every complaint created by SubmitEmergency has category
   general_help, urgency critical, isEmergencySOS true, status submitted,
   priority critical, and contactInfo equal to the caller's phone when the
   caller has one and otherwise the caller's email; the success response
   carries the ETA string "5-8 minutes". *)
C10_EmergencyComplaintShape ==
  [][req'.op = "emergency" =>
       /\ \A id \in Created :
            /\ complaints'[id].category = "general_help"
            /\ complaints'[id].urgency = "critical"
            /\ complaints'[id].isEmergencySOS
            /\ complaints'[id].status = "submitted"
            /\ complaints'[id].priority = "critical"
            /\ complaints'[id].userId = req'.caller
            /\ complaints'[id].contactInfo =
                 IF req'.caller = "u1" THEN "phone_u1" ELSE "email_u2"
       /\ resp'.code = 201 =>
            /\ resp'.eta = "5-8 minutes"
            /\ resp'.id \in Created]_vars

C10_Witness ==
  /\ req.op = "emergency" /\ resp.op = "emergency" /\ resp.code = 201
  /\ resp.eta = "5-8 minutes"
  /\ resp.id \in DOMAIN complaints
  /\ req.caller = "u1"
  /\ complaints[resp.id].contactInfo = "phone_u1"
  /\ complaints[resp.id].priority = "critical"

----------------------------------------------------------------------------
(* The status transition graph as the specification document draws it:
   submitted -> under_review -> assigned -> in_progress -> resolved ->
   closed; submitted -> closed (user cancel); any non-terminal status ->
   escalated or rejected; closed and rejected are terminal. *)

GraphEdge(from, to) ==
  \/ from = "submitted" /\ to = "under_review"
  \/ from = "under_review" /\ to = "assigned"
  \/ from = "assigned" /\ to = "in_progress"
  \/ from = "in_progress" /\ to = "resolved"
  \/ from = "resolved" /\ to = "closed"
  \/ from = "submitted" /\ to = "closed"
  \/ from \notin {"closed", "rejected"} /\ to \in {"escalated", "rejected"}

(* C11: each change of a stored complaint's status is an edge of the
   transition graph; in particular a complaint whose status is closed or
   rejected never changes status again. *)
C11_StatusChangesFollowGraph ==
  [][\A id \in DOMAIN complaints \cap DOMAIN complaints' :
       complaints'[id].status # complaints[id].status =>
         GraphEdge(complaints[id].status, complaints'[id].status)]_vars

----------------------------------------------------------------------------
(* Properties of the communications log (specification SpecMethods) *)

IsPrefix(s, t) == Len(s) <= Len(t) /\ SubSeq(t, 1, Len(s)) = s

(* C12: the communications log of a complaint is append-only: for every
   operation (user or officer AddCommunication, UpdateStatus, AssignOfficer,
   Resolve, Escalate, Cancel, SubmitFeedback, soft delete) the log before
   the operation is a prefix of the log after it; no entry is edited,
   reordered or removed. *)
C12_LogAppendOnly ==
  [][\A id \in DOMAIN complaints \cap DOMAIN complaints' :
       IsPrefix(complaints[id].communications,
                complaints'[id].communications)]_vars

C12_Witness ==
  /\ req.op = "addCommunication()" /\ resp.code = 200
  /\ req.id \in DOMAIN complaints
  /\ Len(complaints[req.id].communications) = 2
  /\ complaints[req.id].communications[1].from = "system"
  /\ complaints[req.id].communications[2] =
       [from |-> "officer", message |-> "message"]

StateChangingOps ==
  {"acknowledge", "resolve", "escalate", "cancel",
   "updateStatus()", "assignOfficer()", "resolve()"}

TransitionMessages ==
  {"Status changed from", "Complaint assigned to officer",
   "Complaint resolved", "Complaint escalated to FIR"}

(* C13: every successful state-changing operation on a complaint
   (Acknowledge/UpdateStatus, AssignOfficer, Resolve, Escalate, Cancel)
   appends exactly one communication entry, with from = system, describing
   the transition; it appends neither zero nor two entries. *)
C13_OneSystemEntryPerStateChange ==
  [][(req'.op \in StateChangingOps /\ resp'.code = 200) =>
       LET before == Target.communications
           after == TargetAfter.communications
       IN /\ Len(after) = Len(before) + 1
          /\ SubSeq(after, 1, Len(before)) = before
          /\ after[Len(after)].from = "system"
          /\ after[Len(after)].message[1] \in TransitionMessages
          /\ after[Len(after)].message[1] = "Status changed from" =>
               /\ after[Len(after)].message[2] = Target.status
               /\ after[Len(after)].message[4] = TargetAfter.status]_vars

C13_Witness ==
  /\ req.op = "assignOfficer()" /\ resp.code = 200
  /\ req.id \in DOMAIN complaints
  /\ complaints[req.id].status = "assigned"
  /\ Len(complaints[req.id].communications) = 1
  /\ complaints[req.id].communications[1] =
       [from |-> "system", message |-> <<"Complaint assigned to officer">>]

----------------------------------------------------------------------------
(* Properties of the stored complaints over the whole lifecycle
   (specification Spec) *)

(* C14: in every reachable state, every stored complaint's priority and
   assignedDepartment equal the policy table's values for that complaint's
   current urgency, category and isEmergencySOS; no operation leaves them
   out of step, and no request can set them to another value. *)
C14_StoredPolicyConsistent ==
  \A id \in DOMAIN complaints :
    LET doc == complaints[id]
    IN /\ doc.priority = PolicyPriority(doc.urgency, doc.isEmergencySOS)
       /\ doc.assignedDepartment = PolicyDepartment(doc.category)

C14_Witness ==
  \E id \in DOMAIN complaints :
    /\ complaints[id].status = "resolved"
    /\ Len(complaints[id].communications) = MaxComms
    /\ complaints[id].feedback = MaxRating
    /\ complaints[id].urgency = "high"
    /\ complaints[id].priority = "high"
    /\ complaints[id].assignedDepartment = "fire_department"

NotifyingOps ==
  {"submit", "emergency", "acknowledge", "resolve", "escalate",
   "authorityCommunication"}

(* C15: for every lifecycle operation that creates a notification (Submit,
   SubmitEmergency, Acknowledge, Resolve, Escalate, officer
   AddCommunication), a failure of the notification creation is swallowed:
   when the complaint's state change is persisted and no notification could
   be stored, the operation still reports success. *)
C15_NotificationFailureSwallowed ==
  [][(/\ req'.op \in NotifyingOps
      /\ complaints' # complaints
      /\ notifications' = notifications) =>
       resp'.code \in {200, 201}]_vars

(* C16: Escalate on an existing complaint succeeds and leaves the stored
   complaint with status escalated. *)
C16_EscalateStoresEscalated ==
  [][Serves("escalate") =>
       /\ resp'.code = 200
       /\ TargetAfter.status = "escalated"]_vars

(* C17: after a successful Resolve with resolutionNotes n, the complaint has
   status resolved and resolution.resolutionNotes = n with resolvedAt set,
   and exactly one notification is created for the complaint's owner, with
   actionRequired = true and pointing to the feedback action. *)
C17_ResolveEffects ==
  [][(req'.op = "resolve" /\ resp'.code = 200) =>
       /\ req'.text # Null
       /\ TargetAfter.status = "resolved"
       /\ TargetAfter.resolutionNotes = req'.text
       /\ TargetAfter.resolvedAt
       /\ Len(notifications') = Len(notifications) + 1
       /\ SubSeq(notifications', 1, Len(notifications)) = notifications
       /\ LET n == notifications'[Len(notifications')]
          IN /\ n.userId = Target.userId
             /\ n.actionRequired
             /\ n.actionUrl = "/sos/" \o req'.id \o "/feedback"]_vars

C17_Witness ==
  /\ req.op = "resolve" /\ resp.op = "resolve" /\ resp.code = 200
  /\ req.id \in DOMAIN complaints
  /\ complaints[req.id].status = "resolved"
  /\ complaints[req.id].resolutionNotes = "notes"
  /\ Len(notifications) > 0
  /\ notifications[Len(notifications)].title = "Complaint Resolved"
  /\ notifications[Len(notifications)].userId = complaints[req.id].userId
  /\ notifications[Len(notifications)].actionRequired

(* C19: every complaint created by Submit or SubmitEmergency is owned by
   the authenticated caller: its userId equals the identity of the request's
   principal whatever the payload contains, and the ownership never changes
   afterwards. *)
C19_OwnerIsAuthenticatedCaller ==
  [][/\ req'.op \in {"submit", "emergency"} =>
          \A id \in Created : complaints'[id].userId = req'.caller
     /\ \A id \in DOMAIN complaints \cap DOMAIN complaints' :
          complaints'[id].userId = complaints[id].userId]_vars

(* C20: every request that reads or mutates complaints, including the
   authority operations acknowledge, resolve, escalate and authority
   communication, is served only with an authenticated principal attached;
   a request without one is rejected as Unauthorized (401) and changes no
   complaint. *)
C20_ServedOnlyWithPrincipal ==
  [][req'.caller = Null =>
       /\ resp'.code = 401
       /\ complaints' = complaints]_vars

----------------------------------------------------------------------------
(* Soft delete (specification SpecMethods) *)

(* the handlers that look a complaint up by the id in the request *)
LookupOps ==
  {"communication", "feedback", "cancel", "acknowledge", "resolve",
   "escalate", "authorityCommunication"}

(* C18: once a complaint is soft-deleted (isDeleted = true), no lookup made
   by any user or authority operation finds it: no communication, feedback,
   cancel, acknowledge, resolve or escalate operation changes it. *)
C18_SoftDeletedNeverChanged ==
  [][(/\ req'.op \in LookupOps
      /\ req'.id \in DOMAIN complaints
      /\ Target.isDeleted) =>
       /\ resp'.code \notin {200, 201}
       /\ complaints' = complaints]_vars

----------------------------------------------------------------------------
(* Authority views (authorityController.js): the complaints as the Alert
   records of the dashboard *)

mapCategoryToType(category) ==
  CASE category = "missing_person" -> "lost_tourist"
    [] category = "fire_emergency" -> "emergency"
    [] category = "theft_robbery" -> "theft"
    [] category \in {"accident", "traffic_violation"} -> "accident"
    [] category = "medical_help" -> "medical_emergency"
    [] category \in {"harassment", "fraud", "noise_complaint"} ->
         "suspicious_activity"
    [] OTHER -> "panic_button"

mapUrgencyToSeverity(urgency) ==
  IF urgency \in Urgencies THEN urgency ELSE "medium"

(* the keys of the mapping literal and some of the keys every object literal
   inherits from Object.prototype *)
StatusMappingKeys ==
  {"submitted", "under_review", "assigned", "in_progress", "resolved",
   "closed", "rejected", "escalated"}

ObjectPrototypeKeys == {"constructor", "toString", "valueOf"}

(* mapping[status]: an own key gives its entry, an inherited key gives the
   inherited function, any other key gives undefined *)
StatusMappingLookup(status) ==
  CASE status = "submitted" -> "active"
    [] status \in {"under_review", "assigned", "in_progress"} ->
         "acknowledged"
    [] status \in {"resolved", "closed", "rejected"} -> "resolved"
    [] status = "escalated" -> "escalated"
    [] status \in ObjectPrototypeKeys -> "[Function: " \o status \o "]"
    [] OTHER -> "undefined"

(* mapping[status] || 'active' *)
mapComplaintStatusToAlertStatus(status) ==
  IF StatusMappingLookup(status) = "undefined"
    THEN "active"
    ELSE StatusMappingLookup(status)

(* array[i] of a JavaScript array, i counted from 0 *)
At(items, i) == IF i + 1 \in DOMAIN items THEN items[i + 1] ELSE "undefined"

(* the truth value of location.coordinates: null and undefined are falsy,
   every array is truthy *)
Truthy(coordinates) == ~coordinates.isNull

NullLatLng == [isNull |-> TRUE, lat |-> Null, lng |-> Null]

LatLng(coordinates) ==
  [isNull |-> FALSE, lat |-> At(coordinates.items, 1),
   lng |-> At(coordinates.items, 0)]

(* the fields of an Alert that depend on the complaint's state *)
Alert(id, doc, coordinates) ==
  [id |-> id,
   type |-> mapCategoryToType(doc.category),
   severity |-> mapUrgencyToSeverity(doc.urgency),
   status |-> mapComplaintStatusToAlertStatus(doc.status),
   coordinates |-> coordinates,
   isEmergencySOS |-> doc.isEmergencySOS]

(* the transformation of the list and detail views *)
TransformedComplaint(id, doc) ==
  Alert(id, doc,
        IF Truthy(doc.coordinates) THEN LatLng(doc.coordinates)
                                   ELSE NullLatLng)

(* the transformation of the nearby view *)
TransformedNearby(id, doc) == Alert(id, doc, LatLng(doc.coordinates))

(* two places, [longitude, latitude], and the distance between them in
   metres *)
Places == {<<"77.2", "28.6">>, <<"78.0", "27.2">>}

Distance(a, b) == IF a = b THEN 0 ELSE 180000

(* parseFloat of a query-string value *)
IsNumeric(v) == \E p \in Places : v \in {p[1], p[2]}

(* statics.getNearbyComplaints: $near over the 2dsphere index, which holds
   no entry for a document whose coordinates are null, absent or empty *)
getNearbyComplaintsStatic(longitude, latitude, maxDistance) ==
  {id \in DOMAIN complaints :
     /\ ~complaints[id].isDeleted
     /\ ~complaints[id].coordinates.isNull
     /\ Len(complaints[id].coordinates.items) = 2
     /\ Distance(complaints[id].coordinates.items, <<longitude, latitude>>)
          <= maxDistance}

Query(status, lat, lng, radius) ==
  [status |-> status, lat |-> lat, lng |-> lng, radius |-> radius]

ViewRequest(op, id, query) ==
  [op |-> op, id |-> id, caller |-> Null, text |-> Null, rating |-> NoRating,
   query |-> query]

ViewResponse(op, code, message, alerts) ==
  [op |-> op, code |-> code, message |-> message, id |-> Null, eta |-> Null,
   alerts |-> alerts]

NoAlerts == [id \in {} |-> Null]

(* GET /authority/complaints?status= *)
getComplaints(status) ==
  /\ req' = ViewRequest("list", Null, Query(status, Null, Null, 5000))
  /\ LET found == {id \in DOMAIN complaints :
                     /\ ~complaints[id].isDeleted
                     /\ status # Null => complaints[id].status = status}
     IN resp' = ViewResponse("list", 200,
                   "Complaints retrieved successfully",
                   [id \in found |-> TransformedComplaint(id, complaints[id])])
  /\ UNCHANGED <<complaints, notifications, trips, calls>>

(* GET /authority/complaints/:complaintId *)
getComplaintDetails(id) ==
  /\ req' = ViewRequest("detail", id, Query(Null, Null, Null, 5000))
  /\ IF id \in DOMAIN complaints /\ ~complaints[id].isDeleted
       THEN resp' = ViewResponse("detail", 200,
                       "Complaint details retrieved successfully",
                       [i \in {id} |-> TransformedComplaint(i, complaints[i])])
       ELSE resp' = ViewResponse("detail", 404, "Complaint not found",
                                 NoAlerts)
  /\ UNCHANGED <<complaints, notifications, trips, calls>>

(* GET /authority/complaints/nearby?lat=&lng=&radius= *)
getNearbyComplaints(lat, lng, radius) ==
  /\ req' = ViewRequest("nearby", Null, Query(Null, lat, lng, radius))
  /\ IF lat = Null \/ lng = Null
       THEN resp' = ViewResponse("nearby", 400,
                       "Latitude and longitude are required", NoAlerts)
       ELSE IF ~IsNumeric(lat) \/ ~IsNumeric(lng)
         THEN resp' = ViewResponse("nearby", 500,
                         "Server error while fetching nearby complaints",
                         NoAlerts)
         ELSE resp' = ViewResponse("nearby", 200,
                         "Nearby complaints retrieved successfully",
                         [id \in getNearbyComplaintsStatic(lng, lat, radius)
                            |-> TransformedNearby(id, complaints[id])])
  /\ UNCHANGED <<complaints, notifications, trips, calls>>

(* the coordinates a client can send: none, an empty array, a position *)
CoordinateInputs ==
  {NullCoordinates, Coordinates(<< >>)} \cup {Coordinates(p) : p \in Places}

ViewsSubmit ==
  \E id \in ComplaintIds \ DOMAIN complaints :
  \E u \in Users, c \in {"fire_emergency", "fraud"}, g \in {Null, "critical"},
     del \in BOOLEAN, coords \in CoordinateInputs :
       submitComplaint(id, u,
          Body(Null, c, g, "contact", FALSE, Null, Null, Null, del, coords),
          TRUE, TRUE)

ViewsEmergency ==
  \E id \in ComplaintIds \ DOMAIN complaints :
  \E u \in Users, coords \in CoordinateInputs :
       submitEmergencyComplaint(id, u, "web_portal", coords, TRUE)

ViewsAcknowledge ==
  \E id \in ComplaintIds : acknowledgeComplaint(id, "officer", Null, TRUE)

ViewsList == \E status \in {Null, "submitted"} : getComplaints(status)

ViewsDetail == \E id \in ComplaintIds : getComplaintDetails(id)

ViewsNearby ==
  \E lat \in {Null, "28.6", "north"}, lng \in {Null, "77.2", "78.0"},
     radius \in {5000, 200000} :
       getNearbyComplaints(lat, lng, radius)

NextViews ==
  \/ ViewsSubmit
  \/ ViewsEmergency
  \/ ViewsAcknowledge
  \/ ViewsList
  \/ ViewsDetail
  \/ ViewsNearby

SpecViews == Init /\ [][NextViews]_vars

ViewOps == {"list", "detail", "nearby"}

(* a complaint has stored coordinates when the path holds a position *)
HasStoredCoordinates(doc) ==
  ~doc.coordinates.isNull /\ Len(doc.coordinates.items) = 2

(* C21: for every complaint, the Alert of the list, detail and nearby views
   has coordinates {lat: stored coordinates[1], lng: stored coordinates[0]}
   when the complaint has stored coordinates [longitude, latitude], and
   coordinates null when it has none. *)
C21_AlertCoordinates ==
  [][(req'.op \in ViewOps /\ resp'.code = 200) =>
       \A id \in DOMAIN resp'.alerts :
         resp'.alerts[id].coordinates =
           IF HasStoredCoordinates(complaints[id])
             THEN [isNull |-> FALSE,
                   lat |-> complaints[id].coordinates.items[2],
                   lng |-> complaints[id].coordinates.items[1]]
             ELSE NullLatLng]_vars

----------------------------------------------------------------------------
(* Derived values: the display status, the safety score of a tourist and the
   formatted complaint id. The initial state holds the call, with its input
   drawn from a bounded set, and one step returns the value. *)

Call(op, input) ==
  [op |-> op, id |-> Null, caller |-> Null, text |-> Null,
   rating |-> NoRating, input |-> input]

Return(op, output) ==
  [op |-> op, code |-> 200, message |-> Null, id |-> Null, eta |-> Null,
   output |-> output]

StatusInputs ==
  StatusMappingKeys \cup ObjectPrototypeKeys \cup {"pending", "Resolved", ""}

DisplayStatus ==
  /\ req.op = "displayStatus"
  /\ resp.op = "none"
  /\ resp' = Return("displayStatus",
                    mapComplaintStatusToAlertStatus(req.input))
  /\ UNCHANGED <<complaints, notifications, trips, calls, req>>

(* the table of the display status *)
DisplayStatusTable(status) ==
  CASE status = "submitted" -> "active"
    [] status \in {"under_review", "assigned", "in_progress"} ->
         "acknowledged"
    [] status \in {"resolved", "closed", "rejected"} -> "resolved"
    [] status = "escalated" -> "escalated"
    [] OTHER -> "active"

(* C22: the display status mapping is total and matches the table:
   submitted gives active; under_review, assigned and in_progress give
   acknowledged; resolved, closed and rejected give resolved; escalated gives
   escalated; any other value gives active. *)
C22_DisplayStatusMatchesTable ==
  [][req'.op = "displayStatus" =>
       resp'.output = DisplayStatusTable(req'.input)]_vars

(* Safety score (touristRoutes.js). A complaint of the list is described by
   its age in days, its emergency flag and its status. *)

MaxList == 3

AgesInDays == {1, 30}

ScoredComplaints ==
  [ageDays : AgesInDays, isEmergencySOS : BOOLEAN,
   status : {"submitted", "resolved", "closed"}]

ComplaintLists == UNION {[1..n -> ScoredComplaints] : n \in 0..MaxList}

Min(a, b) == IF a < b THEN a ELSE b

Max(a, b) == IF a > b THEN a ELSE b

(* new Date(c.createdAt) > new Date(Date.now() - 30 days) *)
IsRecent(c) == c.ageDays < 30

(* the positions in the list of the complaints each filter keeps *)
recentComplaints(list) == {i \in DOMAIN list : IsRecent(list[i])}

emergencyComplaints(list) ==
  {i \in recentComplaints(list) : list[i].isEmergencySOS}

unresolvedComplaints(list) ==
  {i \in recentComplaints(list) :
     list[i].status \notin {"resolved", "closed"}}

(* mutant: the score is not clamped at 0 *)
calculateSafetyScore_NoFloor(list) ==
  IF list = << >> THEN 100
  ELSE Min(100,
         100 - Cardinality(recentComplaints(list)) * 10
             - Cardinality(emergencyComplaints(list)) * 20
             - Cardinality(unresolvedComplaints(list)) * 15)

calculateSafetyScore(list) ==
  IF list = << >> THEN 100
  ELSE Max(0, Min(100,
         100 - Cardinality(recentComplaints(list)) * 10
             - Cardinality(emergencyComplaints(list)) * 20
             - Cardinality(unresolvedComplaints(list)) * 15))

(* safetyInfo.riskLevel *)
riskLevel(safetyScore) ==
  IF safetyScore < 30 THEN "high"
  ELSE IF safetyScore < 70 THEN "medium" ELSE "low"

(* GET /tourists/:touristId: safetyInfo of the tourist's complaints *)
SafetyInfo ==
  /\ req.op = "safetyInfo"
  /\ resp.op = "none"
  /\ resp' = Return("safetyInfo",
               [safetyScore |-> calculateSafetyScore(req.input),
                riskLevel |-> riskLevel(calculateSafetyScore(req.input))])
  /\ UNCHANGED <<complaints, notifications, trips, calls, req>>

(* what one complaint takes off the score *)
Deduction(c) ==
  IF c.ageDays >= 30 THEN 0
  ELSE 10 + (IF c.isEmergencySOS THEN 20 ELSE 0)
          + (IF c.status \in {"resolved", "closed"} THEN 0 ELSE 15)

RECURSIVE TotalDeduction(_)
TotalDeduction(list) ==
  IF list = << >> THEN 0 ELSE Deduction(Head(list)) + TotalDeduction(Tail(list))

(* C23: for every list of complaints, the safety score is 100 minus 10 per
   complaint created in the last 30 days, minus a further 20 per such
   complaint that is an emergency, minus a further 15 per such complaint
   whose status is not resolved or closed, clamped to 0..100; the risk label
   is high below 30, medium below 70 and low otherwise. *)
C23_SafetyScore ==
  [][req'.op = "safetyInfo" =>
       LET raw == 100 - TotalDeduction(req'.input)
           score == IF raw < 0 THEN 0 ELSE IF raw > 100 THEN 100 ELSE raw
       IN /\ resp'.output.safetyScore = score
          /\ resp'.output.riskLevel =
               (CASE score < 30 -> "high"
                  [] score >= 30 /\ score < 70 -> "medium"
                  [] OTHER -> "low")]_vars

(* a list whose deductions exceed 100, scored 0 and labelled high *)
C23_Witness ==
  /\ req.op = "safetyInfo"
  /\ resp.op = "safetyInfo"
  /\ TotalDeduction(req.input) > 100
  /\ resp.output = [safetyScore |-> 0, riskLevel |-> "high"]

(* Formatted complaint id. createdAt is described by getFullYear() and
   getMonth() (0..11); an id is the sequence of the characters of
   _id.toString(). *)

CreatedAts == [year : {2024, 2025}, month : 0..11]

ObjectIds ==
  {<<"6", "5", "f", "0", "a", "1", "b", "2", "c", "3">>,
   <<"6", "5", "f", "0", "0", "0", "0", "0", "0", "7">>,
   <<"6", "6", "a", "1", "d", "e", "a", "d", "9", "e">>,
   <<"0", "f", "a", "1", "b", "2", "c", "3">>}

DecimalDigits == <<"0", "1", "2", "3", "4", "5", "6", "7", "8", "9">>

(* String(n) of a non-negative integer *)
RECURSIVE String(_)
String(n) ==
  IF n < 10 THEN DecimalDigits[n + 1]
  ELSE String(n \div 10) \o DecimalDigits[(n % 10) + 1]

(* str.padStart(targetLength, '0') *)
RECURSIVE padStart(_, _)
padStart(str, targetLength) ==
  IF Len(str) >= targetLength THEN str ELSE padStart("0" \o str, targetLength)

(* seq.slice(-n) *)
slice(chars, n) ==
  IF Len(chars) <= n THEN chars
  ELSE SubSeq(chars, Len(chars) - n + 1, Len(chars))

UpperCaseOf(ch) ==
  CASE ch = "a" -> "A" [] ch = "b" -> "B" [] ch = "c" -> "C"
    [] ch = "d" -> "D" [] ch = "e" -> "E" [] ch = "f" -> "F"
    [] OTHER -> ch

(* chars.toUpperCase(), as one string *)
RECURSIVE toUpperCase(_)
toUpperCase(chars) ==
  IF chars = << >> THEN ""
  ELSE UpperCaseOf(Head(chars)) \o toUpperCase(Tail(chars))

(* `SOS${createdAt.getFullYear()}${String(createdAt.getMonth() + 1)
   .padStart(2, '0')}${_id.toString().slice(-6).toUpperCase()}` *)
ComplaintIdTemplate(createdAt, id) ==
  "SOS" \o String(createdAt.year) \o padStart(String(createdAt.month + 1), 2)
        \o toUpperCase(slice(id, 6))

(* mutant: the month is not counted from 1 *)
virtualComplaintId_MonthFromZero(createdAt, id) ==
  LET year == createdAt.year
      month == padStart(String(createdAt.month), 2)
      sequence == toUpperCase(slice(id, 6))
  IN "SOS" \o String(year) \o month \o sequence

(* sosComplaintSchema.virtual('complaintId') *)
virtualComplaintId(createdAt, id) ==
  LET year == createdAt.year
      month == padStart(String(createdAt.month + 1), 2)
      sequence == toUpperCase(slice(id, 6))
  IN "SOS" \o String(year) \o month \o sequence

(* every place that displays the complaint id of one complaint *)
DisplayComplaintId ==
  /\ req.op = "complaintId"
  /\ resp.op = "none"
  /\ LET createdAt == req.input.createdAt
         id == req.input.id
     IN resp' = Return("complaintId",
                  [virtual |-> virtualComplaintId(createdAt, id),
                   userList |-> ComplaintIdTemplate(createdAt, id),
                   userDetail |-> ComplaintIdTemplate(createdAt, id),
                   authorityList |-> ComplaintIdTemplate(createdAt, id),
                   authorityDetail |-> ComplaintIdTemplate(createdAt, id)])
  /\ UNCHANGED <<complaints, notifications, trips, calls, req>>

InitFunctions ==
  /\ complaints = [id \in {} |-> Null]
  /\ notifications = << >>
  /\ trips = << >>
  /\ calls = [p \in {} |-> Null]
  /\ req \in {Call("displayStatus", status) : status \in StatusInputs}
        \cup {Call("safetyInfo", list) : list \in ComplaintLists}
        \cup {Call("complaintId", [createdAt |-> createdAt, id |-> id]) :
                createdAt \in CreatedAts, id \in ObjectIds}
  /\ resp = Response("none", 0, Null, Null, Null)

NextFunctions == DisplayStatus \/ SafetyInfo \/ DisplayComplaintId

SpecFunctions == InitFunctions /\ [][NextFunctions]_vars

MonthNames ==
  <<"01", "02", "03", "04", "05", "06", "07", "08", "09", "10", "11", "12">>

YearName(year) == IF year = 2024 THEN "2024" ELSE "2025"

DisplaySites ==
  {"virtual", "userList", "userDetail", "authorityList", "authorityDetail"}

(* C24: complaintId is a deterministic function of the complaint's createdAt
   and id: SOS, the year, the zero-padded month and the last six characters
   of the id in upper case; the model's derived field, the user list and
   detail views and the authority list and detail views compute the same
   string for the same complaint. *)
C24_ComplaintIdSameEverywhere ==
  [][req'.op = "complaintId" =>
       \A site \in DisplaySites :
         /\ resp'.output[site] = resp'.output.virtual
         /\ resp'.output[site] =
              "SOS" \o YearName(req'.input.createdAt.year)
                    \o MonthNames[req'.input.createdAt.month + 1]
                    \o toUpperCase(SubSeq(req'.input.id,
                                          Len(req'.input.id) - 5,
                                          Len(req'.input.id)))]_vars

(* a complaint of September 2025 whose id ends in lower-case letters *)
C24_Witness ==
  /\ req.op = "complaintId"
  /\ resp.op = "complaintId"
  /\ req.input.createdAt = [year |-> 2025, month |-> 8]
  /\ resp.output.authorityList = "SOS202509A1B2C3"
  /\ resp.output.virtual = "SOS202509A1B2C3"

----------------------------------------------------------------------------
(* Notifications of Submit (specification SpecIntake) and of the two
   AddCommunication operations (specification Spec) *)

(* the notifications a step has created *)
Created_Notifications ==
  SubSeq(notifications', Len(notifications) + 1, Len(notifications'))

TitledAs(title) ==
  {i \in DOMAIN Created_Notifications :
     Created_Notifications[i].title = title}

(* C25: a successful Submit creates exactly one "submitted" notification for
   the owner, of priority critical and type emergency exactly when the
   urgency is critical, and, exactly when the payload has isEmergencySOS
   set, one additional critical "Emergency SOS Activated" notification and a
   non-null sosActivatedAt; otherwise no second notification is created. *)
C25_SubmitNotifications ==
  [][(req'.op = "submit" /\ resp'.code = 201) =>
       LET doc == complaints'[resp'.id]
           new == Created_Notifications
           submitted == TitledAs("Help Request Submitted")
           activated == TitledAs("Emergency SOS Activated")
       IN /\ Cardinality(submitted) = 1
          /\ \A i \in submitted :
               /\ new[i].userId = doc.userId
               /\ new[i].priority = "critical" <=> doc.urgency = "critical"
               /\ new[i].type = "emergency" <=> doc.urgency = "critical"
          /\ Cardinality(activated) = IF doc.isEmergencySOS THEN 1 ELSE 0
          /\ \A i \in activated :
               new[i].userId = doc.userId /\ new[i].priority = "critical"
          /\ doc.sosActivatedAt <=> doc.isEmergencySOS
          /\ Len(new) = Cardinality(submitted) + Cardinality(activated)]_vars

(* C26: AddCommunication by the user appends an entry only when the caller
   owns the complaint, and creates no notification; a non-owner's call fails
   and leaves the log unchanged. AddCommunication by the officer appends one
   entry and creates exactly one notification addressed to the complaint's
   owner. *)
C26_CommunicationNotifications ==
  [][/\ Serves("communication") =>
          /\ notifications' = notifications
          /\ IF resp'.code = 200
               THEN /\ Target.userId = req'.caller
                    /\ TargetAfter.communications =
                         Append(Target.communications,
                                [from |-> "user", message |-> req'.text])
               ELSE complaints' = complaints
          /\ Target.userId # req'.caller => resp'.code # 200
     /\ (Serves("authorityCommunication") /\ resp'.code = 200) =>
          /\ TargetAfter.communications =
               Append(Target.communications,
                      [from |-> "officer", message |-> req'.text])
          /\ Len(Created_Notifications) = 1
          /\ Created_Notifications[1].userId = Target.userId]_vars

(* an owner has written, the officer has answered and the owner is notified *)
C26_Witness ==
  /\ req.op = "authorityCommunication"
  /\ resp.code = 200
  /\ req.id \in DOMAIN complaints
  /\ Len(complaints[req.id].communications) = 2
  /\ complaints[req.id].communications[1].from = "user"
  /\ complaints[req.id].communications[2].from = "officer"
  /\ \E i \in DOMAIN notifications :
       /\ notifications[i].title = "Message from Authority"
       /\ notifications[i].userId = complaints[req.id].userId

----------------------------------------------------------------------------
(* Requests in flight. A handler awaits its query, changes the document it
   was given in memory and awaits save(); other requests run between the two
   awaits. calls holds, for a request that has read and not yet answered,
   its inputs and the document it read. *)

Procs == {"p1", "p2"}

InFlight(op, id, caller, text, rating, doc) ==
  [op |-> op, id |-> id, caller |-> caller, text |-> text, rating |-> rating,
   doc |-> doc, saved |-> FALSE]

RequestOf(c) == Request(c.op, c.id, c.caller, c.text, c.rating)

(* no response yet *)
Pending(op) == Response(op, 0, Null, Null, Null)

(* save() of a document that was read before: the update holds $set for the
   paths that were assigned a different value and $push for the entries
   pushed on communications; it is applied to the stored document *)
SaveDelta(read, doc, stored) ==
  [f \in DOMAIN stored |->
     IF f = "communications"
       THEN stored[f] \o SubSeq(doc[f], Len(read[f]) + 1, Len(doc[f]))
       ELSE IF doc[f] # read[f] THEN doc[f] ELSE stored[f]]

(* the handler's query and the checks it makes on the document it got *)
ReadOutcome(op, id, caller, text) ==
  CASE op = "feedback" ->
         IF ~(Exists(id) /\ FeedbackQuery(complaints[id], caller))
           THEN Response(op, 404,
                  "Complaint not found or not eligible for feedback",
                  Null, Null)
           ELSE IF AlreadyRated(complaints[id])
             THEN Response(op, 400,
                    "Feedback has already been submitted for this complaint",
                    Null, Null)
             ELSE Pending(op)
    [] op = "cancel" ->
         IF ~(Exists(id) /\ CancelQuery(complaints[id], caller))
           THEN Response(op, 404,
                  "Complaint not found or cannot be cancelled", Null, Null)
           ELSE Pending(op)
    [] op = "communication" ->
         IF ~(Exists(id) /\ OwnedQuery(complaints[id], caller))
           THEN Response(op, 404, "Complaint not found", Null, Null)
           ELSE Pending(op)
    [] op = "resolve" ->
         IF NotesMissing(text)
           THEN Response(op, 400, "Resolution notes are required", Null, Null)
           ELSE IF ~findById(id)
             THEN Response(op, 404, "Complaint not found", Null, Null)
             ELSE Pending(op)
    [] op = "escalate" ->
         IF ~findById(id)
           THEN Response(op, 404, "Complaint not found", Null, Null)
           ELSE Pending(op)

(* the document in memory when the handler calls save() *)
Modified(c, doc) ==
  CASE c.op = "feedback" -> submitFeedbackMethod(doc, c.rating)
    [] c.op = "cancel" ->
         updateStatus(doc, "closed",
            <<"Cancelled by user", Default(c.text, "No reason provided")>>)
    [] c.op = "communication" -> addCommunication(doc, "user", c.text)
    [] c.op = "resolve" -> resolve(doc, c.text)
    [] c.op = "escalate" -> escalate(doc)

SuccessMessage(op) ==
  CASE op = "feedback" -> "Feedback submitted successfully"
    [] op = "cancel" -> "Complaint cancelled successfully"
    [] op = "communication" -> "Communication added successfully"
    [] op = "resolve" -> "Complaint resolved successfully"
    [] op = "escalate" -> "Complaint escalated to FIR successfully"

FailureMessage(op) ==
  CASE op = "feedback" -> "Server error while submitting feedback"
    [] op = "cancel" -> "Server error while cancelling complaint"
    [] op = "communication" -> "Server error while adding communication"
    [] op = "resolve" -> "Server error while resolving complaint"
    [] op = "escalate" -> "Server error while escalating complaint to FIR"

(* the notification a handler creates after its save *)
NotificationOf(c) ==
  CASE c.op = "resolve" ->
         <<Notification(c.doc.userId, "Complaint Resolved", "success",
                        "medium", TRUE, "/sos/" \o c.id \o "/feedback",
                        "sos_complaint")>>
    [] c.op = "escalate" ->
         <<Notification(c.doc.userId, "Complaint Escalated to FIR", "info",
                        "high", FALSE, Null, "fir_case")>>
    [] OTHER -> << >>

(* the handler up to its first await: the request arrives, the query runs,
   and the handler either answers at once or goes on with the document *)
Begin(p, op, id, caller, text, rating) ==
  /\ p \notin DOMAIN calls
  /\ req' = Request(op, id, caller, text, rating)
  /\ resp' = ReadOutcome(op, id, caller, text)
  /\ calls' = IF ReadOutcome(op, id, caller, text) = Pending(op)
                THEN [q \in DOMAIN calls \cup {p} |->
                        IF q = p
                          THEN InFlight(op, id, caller, text, rating,
                                        complaints[id])
                          ELSE calls[q]]
                ELSE calls
  /\ UNCHANGED <<complaints, notifications, trips>>

(* the rest of the handler: the document is changed in memory, validated and
   saved, the notification is created and the request is answered;
   escalateToFIR saves twice, the status first and the log entry second *)
Finish(p) ==
  /\ p \in DOMAIN calls
  /\ LET c == calls[p]
         stored == complaints[c.id]
         doc == Modified(c, c.doc)
         logged == addCommunication(c.doc, "system",
                      <<"Complaint escalated to FIR", c.text>>)
         answered == [q \in DOMAIN calls \ {p} |-> calls[q]]
     IN /\ req' = RequestOf(c)
        /\ UNCHANGED trips
        /\ IF ~c.saved /\ ~validate(doc)
             THEN /\ resp' = Response(c.op, 500, FailureMessage(c.op),
                                      Null, Null)
                  /\ calls' = answered
                  /\ UNCHANGED <<complaints, notifications>>
             ELSE IF c.op = "escalate" /\ ~c.saved
               THEN /\ complaints' = Put(c.id, SaveDelta(c.doc, doc, stored))
                    /\ calls' = [calls EXCEPT ![p].saved = TRUE,
                                              ![p].doc = doc]
                    /\ resp' = Pending(c.op)
                    /\ UNCHANGED notifications
               ELSE /\ Len(stored.communications) +
                         Len((IF c.saved THEN logged ELSE doc).communications)
                         - Len(c.doc.communications) <= MaxComms
                    /\ Len(notifications) + Len(NotificationOf(c))
                         <= MaxNotifs
                    /\ complaints' =
                         Put(c.id, SaveDelta(c.doc,
                                      IF c.saved THEN logged
                                      ELSE preSave(doc, FALSE, FALSE),
                                      stored))
                    /\ notifications' = notifications \o NotificationOf(c)
                    /\ resp' = Response(c.op, 200, SuccessMessage(c.op),
                                        c.id, Null)
                    /\ calls' = answered

ConcurrentSubmit ==
  \E id \in ComplaintIds \ DOMAIN complaints :
  \E u \in Users :
       submitComplaint(id, u,
          Body(Null, "fire_emergency", "high", "contact", FALSE, Null, Null,
               Null, FALSE, NullCoordinates),
          TRUE, TRUE)

BeginUser ==
  \E p \in Procs \ DOMAIN calls :
  \E id \in ComplaintIds, u \in Users :
       \/ \E rating \in {MinRating, MaxRating} :
            Begin(p, "feedback", id, u, Null, rating)
       \/ Begin(p, "cancel", id, u, Null, NoRating)
       \/ Begin(p, "communication", id, u, "message", NoRating)

BeginAuthority ==
  \E p \in Procs \ DOMAIN calls :
  \E id \in ComplaintIds :
       \/ \E notes \in {Null, "notes"} :
            Begin(p, "resolve", id, Null, notes, NoRating)
       \/ Begin(p, "escalate", id, Null, Null, NoRating)

FinishAny == \E p \in DOMAIN calls : Finish(p)

NextConcurrent ==
  \/ ConcurrentSubmit
  \/ BeginUser
  \/ BeginAuthority
  \/ FinishAny

SpecConcurrent == Init /\ [][NextConcurrent]_vars

(* the request p is answered in this step *)
Answered(p) == p \in DOMAIN calls /\ p \notin DOMAIN calls'

(* C27: when two SubmitFeedback requests for the same resolved or closed
   complaint run concurrently (each reads the complaint, checks that no
   rating is present, then writes), at most one of them reports success and
   the stored feedback is the one of the request that succeeded. *)
C27_ConcurrentFeedbackOnce ==
  [][\A p \in DOMAIN calls :
       (Answered(p) /\ calls[p].op = "feedback" /\ resp'.code = 200) =>
          /\ ~AlreadyRated(complaints[calls[p].id])
          /\ complaints'[calls[p].id].feedback = calls[p].rating]_vars

(* C28: each lifecycle operation is one atomic read-modify-write of the
   complaint: when an operation writes and reports success, the stored
   complaint still passes the operation's query and checks and the write is
   the operation's change of the stored complaint; in particular no request
   can observe a complaint whose status is escalated while the system entry
   describing the escalation is not in its log. *)
C28_OperationsAtomic ==
  [][/\ \A p \in DOMAIN calls :
          (Answered(p) /\ resp'.code = 200) =>
             /\ ReadOutcome(calls[p].op, calls[p].id, calls[p].caller,
                            calls[p].text) = Pending(calls[p].op)
             /\ complaints'[calls[p].id] =
                  Modified(calls[p], complaints[calls[p].id])
     /\ \A id \in DOMAIN complaints' :
          complaints'[id].status = "escalated" =>
             \E i \in DOMAIN complaints'[id].communications :
                /\ complaints'[id].communications[i].from = "system"
                /\ complaints'[id].communications[i].message[1] =
                     "Complaint escalated to FIR"]_vars

(* C29: no update is lost when two operations on the same complaint
   interleave: when an operation that read the complaint before another
   one's write reports success, the stored complaint keeps what was written
   in between, next to the operation's own effects. The entries of the log
   are kept, and a field that was changed in between is kept unless the
   operation, run on the stored complaint, would succeed and write the same
   value (it then is a later update, not a lost one). *)
C29_NoLostUpdate ==
  [][\A p \in DOMAIN calls :
       (Answered(p) /\ resp'.code = 200) =>
          LET c == calls[p]
              read == c.doc
              stored == complaints[c.id]
              after == complaints'[c.id]
              own == Modified(c, read)
              later == ReadOutcome(c.op, c.id, c.caller, c.text) =
                         Pending(c.op)
          IN /\ IsPrefix(stored.communications, after.communications)
             /\ \A f \in DOMAIN stored \ {"communications"} :
                   /\ stored[f] # read[f] =>
                         \/ after[f] = stored[f]
                         \/ later /\ after[f] = Modified(c, stored)[f]
                   /\ own[f] # read[f] => after[f] = own[f]
             /\ \A i \in DOMAIN own.communications :
                   i > Len(read.communications) =>
                     \E j \in DOMAIN after.communications :
                        after.communications[j] = own.communications[i]]_vars

----------------------------------------------------------------------------
(* Trips (tripController.js and the Trip model). A trip is described by its
   owner, its status, its archive flag and where its dates lie with respect
   to today. *)

TripIds == {"t1", "t2"}

TripStatusEnum == {"planned", "active", "completed", "cancelled"}

TripDates == {"past", "current", "future"}

NewTrip(userId, dates, status) ==
  [userId |-> userId, status |-> Default(status, "planned"),
   isArchived |-> FALSE, dates |-> dates]

(* required start and end date, status within the enum *)
tripValidate(trip) ==
  trip.dates \in TripDates /\ trip.status \in TripStatusEnum

(* tripSchema.pre('save'): a planned trip whose dates include today becomes
   active, one that ended before today becomes completed *)
tripPreSave(trip) ==
  IF trip.status = "planned"
    THEN IF trip.dates = "current" THEN [trip EXCEPT !.status = "active"]
         ELSE IF trip.dates = "past"
           THEN [trip EXCEPT !.status = "completed"]
           ELSE trip
    ELSE trip

(* the trips that findOne({userId, status: 'planned', isArchived: false})
   can return *)
findActiveTrip(userId) ==
  {t \in DOMAIN trips :
     /\ trips[t].userId = userId
     /\ trips[t].status = "planned"
     /\ ~trips[t].isArchived}

(* Trip.findOne({_id: tripId, userId}) *)
findTrip(id, userId) == id \in DOMAIN trips /\ trips[id].userId = userId

PutTrip(id, trip) ==
  [t \in DOMAIN trips \cup {id} |-> IF t = id THEN trip ELSE trips[t]]

ConflictMessage ==
  "You already have an active trip. Complete or archive it first."

(* POST /trips; dates and status are taken from req.body *)
createTrip(id, userId, dates, status) ==
  /\ id \notin DOMAIN trips
  /\ req' = Request("createTrip", Null, userId, dates, NoRating)
  /\ UNCHANGED <<complaints, notifications, calls>>
  /\ IF findActiveTrip(userId) # {}
       THEN /\ resp' = Response("createTrip", 409, ConflictMessage, Null, Null)
            /\ UNCHANGED trips
       ELSE IF ~tripValidate(NewTrip(userId, dates, status))
         THEN /\ resp' = Response("createTrip", 400, "Invalid trip data",
                                  Null, Null)
              /\ UNCHANGED trips
         ELSE /\ trips' = PutTrip(id, tripPreSave(NewTrip(userId, dates,
                                                          status)))
              /\ resp' = Response("createTrip", 201,
                                  "Trip created successfully", id, Null)

(* the handlers that load one trip of the caller, change it and save it *)
changeTrip(op, id, userId, changed, message) ==
  /\ req' = Request(op, id, userId, Null, NoRating)
  /\ UNCHANGED <<complaints, notifications, calls>>
  /\ IF ~findTrip(id, userId)
       THEN /\ resp' = Response(op, 404, "Trip not found", Null, Null)
            /\ UNCHANGED trips
       ELSE /\ trips' = PutTrip(id, tripPreSave(changed))
            /\ resp' = Response(op, 200, message, id, Null)

(* PATCH /trips/:tripId/activate *)
activateTrip(id, userId) ==
  \/ /\ \E existing \in findActiveTrip(userId) : existing # id
     /\ req' = Request("activateTrip", id, userId, Null, NoRating)
     /\ resp' = Response("activateTrip", 409, ConflictMessage, Null, Null)
     /\ UNCHANGED <<complaints, notifications, calls, trips>>
  \/ /\ findActiveTrip(userId) = {} \/ id \in findActiveTrip(userId)
     /\ changeTrip("activateTrip", id, userId,
                   IF id \in DOMAIN trips
                     THEN [trips[id] EXCEPT !.status = "active"]
                     ELSE Null,
                   "Trip activated successfully")

(* PATCH /trips/:tripId/archive *)
archiveTrip(id, userId) ==
  changeTrip("archiveTrip", id, userId,
             IF id \in DOMAIN trips
               THEN [trips[id] EXCEPT !.isArchived = TRUE]
               ELSE Null,
             "Trip archived successfully")

(* PATCH /trips/:tripId/complete *)
completeTrip(id, userId) ==
  changeTrip("completeTrip", id, userId,
             IF id \in DOMAIN trips
               THEN [trips[id] EXCEPT !.status = "completed"]
               ELSE Null,
             "Trip completed successfully")

TripsCreate ==
  \E id \in TripIds \ DOMAIN trips :
  \E u \in Users, dates \in TripDates, status \in {Null, "active"} :
       createTrip(id, u, dates, status)

TripsActivate == \E id \in TripIds, u \in Users : activateTrip(id, u)

TripsArchive == \E id \in TripIds, u \in Users : archiveTrip(id, u)

TripsComplete == \E id \in TripIds, u \in Users : completeTrip(id, u)

NextTrips == TripsCreate \/ TripsActivate \/ TripsArchive \/ TripsComplete

SpecTrips == Init /\ [][NextTrips]_vars

(* the trips of a user that are neither finished nor archived *)
Unfinished(store, userId) ==
  {t \in DOMAIN store :
     /\ store[t].userId = userId
     /\ store[t].status \in {"planned", "active"}
     /\ ~store[t].isArchived}

(* C30: a user never holds two non-archived unfinished trips (status planned
   or active) at once: createTrip is refused with 409 whenever the user
   already has such a trip, and activateTrip is refused with 409 whenever
   the user has such a trip other than the one being activated. *)
C30_OneUnfinishedTrip ==
  [][/\ \A u \in Users : Cardinality(Unfinished(trips', u)) <= 1
     /\ (req'.op = "createTrip" /\ Unfinished(trips, req'.caller) # {}) =>
          resp'.code = 409
     /\ (req'.op = "activateTrip" /\
         Unfinished(trips, req'.caller) \ {req'.id} # {}) =>
          resp'.code = 409]_vars

====
